---- MODULE Spec2Model ----
(***************************************************************************)
(* Neonatal early-onset sepsis calculator (src/src/App.js).                *)
(*                                                                         *)
(* Texts that the code parses or formats (the incidence value, the         *)
(* displayed risk) are sequences of one-character strings, so that         *)
(* parseFloat and toFixed are modelled by what they do.  Category codes    *)
(* are only compared and used as table keys, so they are plain strings;    *)
(* the codes written with U+2265 / U+2264 in the source are spelled        *)
(* ">=" / "<=" here.                                                       *)
(*                                                                         *)
(* Likelihood ratios are kept in tenths (1.4 is 14).  A JavaScript number  *)
(* is a record [k, m, e]: k = "fin" stands for m / 10^e, and k = "nan",    *)
(* "inf", "-inf" are the IEEE special values.                              *)
(***************************************************************************)
EXTENDS Integers, Sequences, FiniteSets, TLC

VARIABLES incidence, gestationalAge, highestTemp, rom, gbsStatus, iap,
          sepsisRisk, recommendation, effectPending, lastEvent

inputs == <<incidence, gestationalAge, highestTemp, rom, gbsStatus, iap>>
display == <<sepsisRisk, recommendation>>
vars == <<incidence, gestationalAge, highestTemp, rom, gbsStatus, iap,
          sepsisRisk, recommendation, effectPending, lastEvent>>

(* ---------------------------------------------------------------- bounds *)

\* Largest incidence, in tenths per 1000 births, among the inputs drawn.
MaxIncidenceTenths == 10

\* Largest risk, in hundredths per 1000 births, handed to the classifier.
MaxRiskHundredths == 125

(* ------------------------------------------------------- static data *)

DEFAULT_INCIDENCE == <<"0", ".", "5">>

LIKELIHOOD_RATIOS ==
  [ gestationalAge |->
      [ c \in { ">=42", "41 0/7-41 6/7", "40 0/7-40 6/7", "39 0/7-39 6/7",
                "38 0/7-38 6/7", "37 0/7-37 6/7", "36 0/7-36 6/7",
                "35 0/7-35 6/7", "<=34 6/7" } |->
          CASE c = ">=42"          -> 14
            [] c = "41 0/7-41 6/7" -> 11
            [] c = "40 0/7-40 6/7" -> 8
            [] c = "39 0/7-39 6/7" -> 6
            [] c = "38 0/7-38 6/7" -> 5
            [] c = "37 0/7-37 6/7" -> 4
            [] c = "36 0/7-36 6/7" -> 7
            [] c = "35 0/7-35 6/7" -> 13
            [] c = "<=34 6/7"      -> 23 ],
    rom |->
      [ c \in { "<12", "12-18", "18-24", ">24" } |->
          CASE c = "<12"   -> 6
            [] c = "12-18" -> 13
            [] c = "18-24" -> 17
            [] c = ">24"   -> 21 ],
    highestTemp |->
      [ c \in { "<38", ">=38" } |->
          CASE c = "<38"  -> 4
            [] c = ">=38" -> 37 ],
    gbsStatus |->
      [ c \in { "positive", "negative", "unknown" } |->
          CASE c = "positive" -> 20
            [] c = "negative" -> 4
            [] c = "unknown"  -> 10 ],
    iap |->
      [ c \in { "adequate_pen_amp", "adequate_cefazolin",
                "adequate_clinda_vanco", "inadequate_or_no",
                "no_iap_needed" } |->
          CASE c = "adequate_pen_amp"      -> 2
            [] c = "adequate_cefazolin"    -> 4
            [] c = "adequate_clinda_vanco" -> 9
            [] c = "inadequate_or_no"      -> 10
            [] c = "no_iap_needed"         -> 10 ] ]

\* The options each selector offers.
IncidenceOptions ==
  { <<"0", ".", "2">>, <<"0", ".", "3">>, <<"0", ".", "5">>,
    <<"0", ".", "7">>, <<"1", ".", "0">> }
GestationalAgeOptions == DOMAIN LIKELIHOOD_RATIOS.gestationalAge
HighestTempOptions == DOMAIN LIKELIHOOD_RATIOS.highestTemp
RomOptions == DOMAIN LIKELIHOOD_RATIOS.rom
GbsStatusOptions == DOMAIN LIKELIHOOD_RATIOS.gbsStatus
IapOptions == DOMAIN LIKELIHOOD_RATIOS.iap

(* ------------------------------------------------- JavaScript numbers *)

NaN == [k |-> "nan", m |-> 0, e |-> 0]
PosInfinity == [k |-> "inf", m |-> 0, e |-> 0]
NegInfinity == [k |-> "-inf", m |-> 0, e |-> 0]
Fin(m, e) == [k |-> "fin", m |-> m, e |-> e]

isNaN(x) == x.k = "nan"

RECURSIVE Pow10(_)
Pow10(n) == IF n = 0 THEN 1 ELSE 10 * Pow10(n - 1)

\* x <= 0, as IEEE compares: false for NaN.
LeqZero(x) == (x.k = "-inf") \/ (x.k = "fin" /\ x.m <= 0)

\* x > c / 100 and x >= c / 100 for a literal with two decimals.
GtHundredths(x, c) ==
  \/ x.k = "inf"
  \/ x.k = "fin" /\ x.m * 100 > c * Pow10(x.e)
GeqHundredths(x, c) ==
  \/ x.k = "inf"
  \/ x.k = "fin" /\ x.m * 100 >= c * Pow10(x.e)
LeqHundredths(x, c) ==
  \/ x.k = "-inf"
  \/ x.k = "fin" /\ x.m * 100 <= c * Pow10(x.e)

Digits == <<"0", "1", "2", "3", "4", "5", "6", "7", "8", "9">>
IsDigit(c) == \E i \in 1..10 : Digits[i] = c
DigitValue(c) == (CHOOSE i \in 1..10 : Digits[i] = c) - 1

RECURSIVE DigitsValue(_)
DigitsValue(s) ==
  IF s = <<>> THEN 0
  ELSE 10 * DigitsValue(SubSeq(s, 1, Len(s) - 1)) + DigitValue(s[Len(s)])

RECURSIVE TakeDigits(_)
TakeDigits(s) ==
  IF s # <<>> /\ IsDigit(Head(s)) THEN <<Head(s)>> \o TakeDigits(Tail(s))
  ELSE <<>>

RECURSIVE StripLeadingSpace(_)
StripLeadingSpace(s) ==
  IF s # <<>> /\ Head(s) = " " THEN StripLeadingSpace(Tail(s)) ELSE s

Drop(s, n) == SubSeq(s, n + 1, Len(s))
StartsWith(s, p) == Len(s) >= Len(p) /\ SubSeq(s, 1, Len(p)) = p

\* parseFloat: leading white space skipped, then the longest prefix that is
\* a decimal literal (sign, "Infinity", or digits with an optional fraction);
\* NaN when there is none.  Exponent notation is outside the texts used here.
parseFloat(text) ==
  LET s0 == StripLeadingSpace(text)
      signed == s0 # <<>> /\ Head(s0) \in {"-", "+"}
      negative == s0 # <<>> /\ Head(s0) = "-"
      s == IF signed THEN Tail(s0) ELSE s0
      ip == TakeDigits(s)
      afterInt == Drop(s, Len(ip))
      fp == IF afterInt # <<>> /\ Head(afterInt) = "."
            THEN TakeDigits(Tail(afterInt)) ELSE <<>>
      mag == DigitsValue(ip \o fp)
  IN  IF StartsWith(s, <<"I", "n", "f", "i", "n", "i", "t", "y">>)
      THEN IF negative THEN NegInfinity ELSE PosInfinity
      ELSE IF ip = <<>> /\ fp = <<>> THEN NaN
      ELSE Fin(IF negative THEN 0 - mag ELSE mag, Len(fp))

RECURSIVE NatToText(_)
NatToText(n) ==
  IF n < 10 THEN <<Digits[n + 1]>>
  ELSE NatToText(n \div 10) \o <<Digits[(n % 10) + 1]>>

\* Variant: the fraction is written without its leading zero (1.05 as "1.5").
FixedText_NoPad(h) == NatToText(h \div 100) \o <<".">> \o NatToText(h % 100)

\* Fixed-point text with exactly two decimals of h / 100, h >= 0.
FixedText(h) ==
  NatToText(h \div 100) \o <<".">>
    \o <<Digits[((h \div 10) % 10) + 1], Digits[(h % 10) + 1]>>

(* ------------------------------------------------- risk computation *)

\* A property read of a table: <<ratio>> for a key the table holds, and <<>>
\* (undefined) for any other key.
Lookup(table, code) ==
  IF code \in DOMAIN table THEN <<table[code]>> ELSE <<>>

\* Variant: the ratio of the chosen IAP code is used whatever the GBS status.
lrIap_NoGbsCheck(gbs, ia) ==
  IF ia = "no_iap_needed" THEN <<10>>
  ELSE Lookup(LIKELIHOOD_RATIOS.iap, ia)

\* src line 67: the IAP ratio counts only for a GBS-positive mother.
lrIap(gbs, ia) ==
  IF ia = "no_iap_needed" \/ gbs # "positive" THEN <<10>>
  ELSE Lookup(LIKELIHOOD_RATIOS.iap, ia)

\* src lines 63-69: the product of the five ratios, in units of 10^-5;
\* <<product>>, or <<>> (NaN) as soon as one factor is undefined.
combinedLR(ga, temp, r, gbs, ia) ==
  LET lrGestationalAge == Lookup(LIKELIHOOD_RATIOS.gestationalAge, ga)
      lrHighestTemp == Lookup(LIKELIHOOD_RATIOS.highestTemp, temp)
      lrRom == Lookup(LIKELIHOOD_RATIOS.rom, r)
      lrGbsStatus == Lookup(LIKELIHOOD_RATIOS.gbsStatus, gbs)
  IN  IF <<>> \in { lrGestationalAge, lrHighestTemp, lrRom,
                     lrGbsStatus, lrIap(gbs, ia) }
      THEN <<>>
      ELSE << lrGestationalAge[1] * lrHighestTemp[1] * lrRom[1]
                * lrGbsStatus[1] * lrIap(gbs, ia)[1] >>

\* <<quotient, remainder>> of k * x by d, for 0 <= x < d, by doubling, so
\* that no intermediate value exceeds d.
RECURSIVE DivMod(_, _, _)
DivMod(k, x, d) ==
  IF k = 0 THEN <<0, 0>>
  ELSE LET h == DivMod(k \div 2, x, d)
           dbl == IF h[2] >= d - h[2]
                  THEN <<2 * h[1] + 1, h[2] - (d - h[2])>>
                  ELSE <<2 * h[1], h[2] + h[2]>>
       IN  IF k % 2 = 0 THEN dbl
           ELSE IF dbl[2] >= d - x
                THEN <<dbl[1] + 1, dbl[2] - (d - x)>>
                ELSE <<dbl[1], dbl[2] + x>>

\* Variant: the digits after the second decimal are cut off, not rounded.
toFixed2_Truncate(num, den) == FixedText(DivMod(100000, num, den)[1])

\* (num / den * 1000).toFixed(2): the nearest multiple of 0.01, the larger
\* one of two equally near, as fixed-point text.
toFixed2(num, den) ==
  LET qr == DivMod(100000, num, den)
      h == IF qr[2] >= den - qr[2] THEN qr[1] + 1 ELSE qr[1]
  IN  FixedText(h)

\* src lines 57-74.  With incidence m / s and combined ratio c / 10^5 the
\* posterior odds are (m * c) / ((1000 * s - m) * 10^5) and the posterior
\* probability is odds.num / (odds.den + odds.num).  An infinite incidence
\* gives Infinity / -Infinity = NaN, an incidence of exactly 1000 gives
\* Infinity / Infinity = NaN, and NaN is formatted as "NaN".
ComputeSepsisRisk(inc, ga, temp, r, gbs, ia) ==
  LET numericIncidence == parseFloat(inc)
      s == Pow10(numericIncidence.e)
      lr == combinedLR(ga, temp, r, gbs, ia)
      oddsNum == numericIncidence.m * lr[1]
      oddsDen == (1000 * s - numericIncidence.m) * 100000
  IN  IF isNaN(numericIncidence) \/ LeqZero(numericIncidence)
      THEN <<"0", ".", "0", "0">>
      ELSE IF \/ numericIncidence.k = "inf"
              \/ lr = <<>>
              \/ numericIncidence.m = 1000 * s
      THEN <<"N", "a", "N">>
      ELSE toFixed2(oddsNum, oddsDen + oddsNum)

\* Variant: the upper threshold is taken as inclusive of the top tier.
ComputeRecommendation_Geq(riskText) ==
  LET risk == parseFloat(riskText)
  IN  IF GeqHundredths(risk, 118) THEN "Empiric Antibiotics Recommended"
      ELSE IF GeqHundredths(risk, 65) /\ LeqHundredths(risk, 118)
      THEN "Enhanced Vital Signs"
      ELSE "Routine Care"

\* src lines 77-82 (the text of the recommendation; the colour goes with it).
ComputeRecommendation(riskText) ==
  LET risk == parseFloat(riskText)
  IN  IF GtHundredths(risk, 118) THEN "Empiric Antibiotics Recommended"
      ELSE IF GeqHundredths(risk, 65) /\ LeqHundredths(risk, 118)
      THEN "Enhanced Vital Signs"
      ELSE "Routine Care"

(* ------------------------------------------------------ the component *)

\* One render: both memoized values are recomputed from the new state.
Render ==
  /\ sepsisRisk' = ComputeSepsisRisk(incidence', gestationalAge', highestTemp',
                                     rom', gbsStatus', iap')
  /\ recommendation' = ComputeRecommendation(sepsisRisk')

\* State after the first render: the effect of line 95 is scheduled and has
\* not run yet.
Init ==
  /\ incidence = DEFAULT_INCIDENCE
  /\ gestationalAge = ">=42"
  /\ highestTemp = "<38"
  /\ rom = "<12"
  /\ gbsStatus = "negative"
  /\ iap = "no_iap_needed"
  /\ sepsisRisk = ComputeSepsisRisk(incidence, gestationalAge, highestTemp,
                                    rom, gbsStatus, iap)
  /\ recommendation = ComputeRecommendation(sepsisRisk)
  /\ effectPending = TRUE
  /\ lastEvent = "mount"

\* The change handlers.  An event is handled only after the pending passive
\* effect of the previous commit has been flushed.
setIncidence(v) ==
  /\ ~effectPending
  /\ incidence' = v
  /\ UNCHANGED <<gestationalAge, highestTemp, rom, gbsStatus, iap, effectPending>>
  /\ lastEvent' = "incidence"
  /\ Render

setGestationalAge(v) ==
  /\ ~effectPending
  /\ gestationalAge' = v
  /\ UNCHANGED <<incidence, highestTemp, rom, gbsStatus, iap, effectPending>>
  /\ lastEvent' = "gestationalAge"
  /\ Render

setHighestTemp(v) ==
  /\ ~effectPending
  /\ highestTemp' = v
  /\ UNCHANGED <<incidence, gestationalAge, rom, gbsStatus, iap, effectPending>>
  /\ lastEvent' = "highestTemp"
  /\ Render

setRom(v) ==
  /\ ~effectPending
  /\ rom' = v
  /\ UNCHANGED <<incidence, gestationalAge, highestTemp, gbsStatus, iap, effectPending>>
  /\ lastEvent' = "rom"
  /\ Render

\* The effect's dependency is gbsStatus: it is scheduled when the value
\* differs from the one of the previous render.
setGbsStatus(v) ==
  /\ ~effectPending
  /\ gbsStatus' = v
  /\ effectPending' = (v # gbsStatus)
  /\ UNCHANGED <<incidence, gestationalAge, highestTemp, rom, iap>>
  /\ lastEvent' = "gbsStatus"
  /\ Render

\* Variant: the IAP selector is never disabled.
setIap_NotDisabled(v) ==
  /\ ~effectPending
  /\ iap' = v
  /\ UNCHANGED <<incidence, gestationalAge, highestTemp, rom, gbsStatus, effectPending>>
  /\ lastEvent' = "iap"
  /\ Render

\* Variant: choosing "not applicable" also turns GBS to negative.
setIap_SyncsGbs(v) ==
  /\ ~effectPending
  /\ gbsStatus = "positive"
  /\ iap' = v
  /\ gbsStatus' = IF v = "no_iap_needed" THEN "negative" ELSE gbsStatus
  /\ effectPending' = (gbsStatus' # gbsStatus)
  /\ UNCHANGED <<incidence, gestationalAge, highestTemp, rom>>
  /\ lastEvent' = "iap"
  /\ Render

\* The IAP selector is disabled unless GBS is positive (line 217).
setIap(v) ==
  /\ ~effectPending
  /\ gbsStatus = "positive"
  /\ iap' = v
  /\ UNCHANGED <<incidence, gestationalAge, highestTemp, rom, gbsStatus, effectPending>>
  /\ lastEvent' = "iap"
  /\ Render

\* Variant: Reset leaves the IAP choice to the effect.
handleReset_KeepsIap ==
  /\ ~effectPending
  /\ incidence' = DEFAULT_INCIDENCE
  /\ gestationalAge' = ">=42"
  /\ highestTemp' = "<38"
  /\ rom' = "<12"
  /\ gbsStatus' = "negative"
  /\ iap' = iap
  /\ effectPending' = (gbsStatus # "negative")
  /\ lastEvent' = "reset"
  /\ Render

handleReset ==
  /\ ~effectPending
  /\ incidence' = DEFAULT_INCIDENCE
  /\ gestationalAge' = ">=42"
  /\ highestTemp' = "<38"
  /\ rom' = "<12"
  /\ gbsStatus' = "negative"
  /\ iap' = "no_iap_needed"
  /\ effectPending' = (gbsStatus # "negative")
  /\ lastEvent' = "reset"
  /\ Render

\* src lines 95-99, run after the commit that changed gbsStatus.
GbsStatusEffect ==
  /\ effectPending
  /\ iap' = IF gbsStatus # "positive" THEN "no_iap_needed" ELSE iap
  /\ effectPending' = FALSE
  /\ UNCHANGED <<incidence, gestationalAge, highestTemp, rom, gbsStatus>>
  /\ lastEvent' = "effect"
  /\ Render

Next ==
  \/ \E v \in IncidenceOptions : setIncidence(v)
  \/ \E v \in GestationalAgeOptions : setGestationalAge(v)
  \/ \E v \in HighestTempOptions : setHighestTemp(v)
  \/ \E v \in RomOptions : setRom(v)
  \/ \E v \in GbsStatusOptions : setGbsStatus(v)
  \/ \E v \in IapOptions : setIap(v)
  \/ handleReset
  \/ GbsStatusEffect

Spec == Init /\ [][Next]_vars

(* ------------------------------------- the two derivations on their own *)

\* Text of i / 10 with one decimal, as the selector's option values are
\* written ("0.5", "1.0").
TenthsText(i) == NatToText(i \div 10) \o <<".", Digits[(i % 10) + 1]>>

ValidIncidenceTexts == { TenthsText(i) : i \in 1..MaxIncidenceTenths }

\* Incidence values that are not finite positive numbers.
MalformedIncidenceTexts ==
  { <<"0">>, <<"-", "1">>, <<"-", "0", ".", "5">>, <<"N", "a", "N">>,
    <<"a", "b", "c">>, <<>>,
    <<"I", "n", "f", "i", "n", "i", "t", "y">>,
    <<"-", "I", "n", "f", "i", "n", "i", "t", "y">> }

\* A code that no table holds.
NonEnumerated == { "bogus" }

RiskTexts ==
  { FixedText(h) : h \in 0..MaxRiskHundredths }
    \cup { <<"0", ".", "6", "4", "9", "9">>, <<"1", ".", "1", "8", "0", "1">> }

\* The callback of the first useMemo (lines 57-74) applied to given inputs.
SepsisRiskMemo ==
  /\ sepsisRisk = <<>>
  /\ sepsisRisk' = ComputeSepsisRisk(incidence, gestationalAge, highestTemp,
                                     rom, gbsStatus, iap)
  /\ lastEvent' = "sepsisRisk"
  /\ UNCHANGED <<incidence, gestationalAge, highestTemp, rom, gbsStatus, iap,
                 recommendation, effectPending>>

\* The callback of the second useMemo (lines 77-82) applied to a risk text.
RecommendationMemo ==
  /\ sepsisRisk # <<>>
  /\ recommendation = ""
  /\ recommendation' = ComputeRecommendation(sepsisRisk)
  /\ lastEvent' = "recommendation"
  /\ UNCHANGED <<incidence, gestationalAge, highestTemp, rom, gbsStatus, iap,
                 sepsisRisk, effectPending>>

InitCalc ==
  /\ incidence \in ValidIncidenceTexts \cup MalformedIncidenceTexts
  /\ gestationalAge \in GestationalAgeOptions \cup NonEnumerated
  /\ highestTemp \in HighestTempOptions \cup NonEnumerated
  /\ rom \in RomOptions \cup NonEnumerated
  /\ gbsStatus \in GbsStatusOptions \cup NonEnumerated
  /\ iap \in IapOptions \cup NonEnumerated
  /\ sepsisRisk = <<>>
  /\ recommendation = ""
  /\ effectPending = FALSE
  /\ lastEvent = "args"

NextCalc == SepsisRiskMemo \/ RecommendationMemo

CalcSpec == InitCalc /\ [][NextCalc]_vars

InitClassify ==
  /\ incidence = DEFAULT_INCIDENCE
  /\ gestationalAge = ">=42"
  /\ highestTemp = "<38"
  /\ rom = "<12"
  /\ gbsStatus = "negative"
  /\ iap = "no_iap_needed"
  /\ sepsisRisk \in RiskTexts
  /\ recommendation = ""
  /\ effectPending = FALSE
  /\ lastEvent = "args"

NextClassify == RecommendationMemo

ClassifySpec == InitClassify /\ [][NextClassify]_vars

(* ------------------------------------------------------------ properties *)

RiskComputed == lastEvent \in {"sepsisRisk", "recommendation"}
Classified == lastEvent = "recommendation"

EnumeratedCodes ==
  /\ gestationalAge \in GestationalAgeOptions
  /\ highestTemp \in HighestTempOptions
  /\ rom \in RomOptions
  /\ gbsStatus \in GbsStatusOptions
  /\ iap \in IapOptions

Tiers ==
  { "Empiric Antibiotics Recommended", "Enhanced Vital Signs", "Routine Care" }

\* C2 (CalcSpec): IAP suppression.  For a valid incidence and enumerated
\* codes with gbsStatus other than positive, the computed risk (and the tier
\* derived from it) is the one computed with iap = no_iap_needed.
C2_IapSuppression ==
  (RiskComputed /\ incidence \in ValidIncidenceTexts /\ EnumeratedCodes
     /\ gbsStatus # "positive")
  => /\ sepsisRisk = ComputeSepsisRisk(incidence, gestationalAge, highestTemp,
                                       rom, gbsStatus, "no_iap_needed")
     /\ Classified =>
          recommendation = ComputeRecommendation(
            ComputeSepsisRisk(incidence, gestationalAge, highestTemp, rom,
                              gbsStatus, "no_iap_needed"))

C2_Witness ==
  /\ Classified
  /\ incidence = <<"1", ".", "0">>
  /\ gestationalAge = "<=34 6/7" /\ highestTemp = ">=38" /\ rom = ">24"
  /\ gbsStatus = "unknown"
  /\ iap = "adequate_pen_amp"
  /\ sepsisRisk = <<"1", "7", ".", "5", "7">>

\* k * x <= 100000 * t, for k, x >= 0, without forming either product:
\* x is split at 10^5.
LeqScaled(k, x, t) ==
  LET xh == x \div 100000
      xl == x % 100000
      c == (k * xl) \div 100000
      d == (k * xl) % 100000
  IN  IF k <= 0 THEN t >= 0
      ELSE k * xh + c + (IF d > 0 THEN 1 ELSE 0) <= t

\* h / 100 is the multiple of 0.01 nearest to 1000 * odds / (1 + odds), the
\* larger of two equally near, where odds = (i / 10) / (1000 - i / 10) * p / 10^5:
\* (2h - 1) * d <= 2 * 10^5 * x < (2h + 1) * d with x = i * p and
\* d = 10^5 * (10000 - i) + x.
NearestHundredth(h, i, p) ==
  LET x == i * p
      a == 10000 - i
  IN  /\ LeqScaled(2 * h - 1, x, 2 * x - (2 * h - 1) * a)
      /\ ~LeqScaled(2 * h + 1, x, 2 * x - (2 * h + 1) * a)

\* The product of the five table ratios (in tenths), the IAP ratio replaced
\* by 1.0 unless GBS is positive.
TableProduct ==
  LIKELIHOOD_RATIOS.gestationalAge[gestationalAge]
    * LIKELIHOOD_RATIOS.highestTemp[highestTemp]
    * LIKELIHOOD_RATIOS.rom[rom]
    * LIKELIHOOD_RATIOS.gbsStatus[gbsStatus]
    * (IF gbsStatus = "positive" THEN LIKELIHOOD_RATIOS.iap[iap] ELSE 10)

IsFixedText(t) ==
  /\ Len(t) >= 4
  /\ t[Len(t) - 2] = "."
  /\ \A j \in 1..Len(t) : j # Len(t) - 2 => IsDigit(t[j])
  /\ Len(t) > 4 => t[1] # "0"

HundredthsOf(t) == DigitsValue(SelectSeq(t, IsDigit))

\* C3 (CalcSpec): for a valid incidence and enumerated codes the result is
\* 1000 * posteriorOdds / (1 + posteriorOdds) rounded to exactly two decimals,
\* posteriorOdds being incidence / (1000 - incidence) times the product of the
\* five ratios; the end-to-end scenario gives 3.56 and the top tier.
C3_RoundedPosterior ==
  /\ (RiskComputed /\ EnumeratedCodes)
       => \A i \in 1..MaxIncidenceTenths :
            incidence = TenthsText(i)
              => /\ IsFixedText(sepsisRisk)
                 /\ NearestHundredth(HundredthsOf(sepsisRisk), i, TableProduct)
  /\ (Classified /\ incidence = <<"0", ".", "5">>
        /\ gestationalAge = "<=34 6/7" /\ highestTemp = ">=38" /\ rom = ">24"
        /\ gbsStatus = "positive" /\ iap = "adequate_pen_amp")
       => /\ sepsisRisk = <<"3", ".", "5", "6">>
          /\ recommendation = "Empiric Antibiotics Recommended"

C3_Witness ==
  /\ Classified /\ incidence = <<"0", ".", "5">>
  /\ gestationalAge = "<=34 6/7" /\ highestTemp = ">=38" /\ rom = ">24"
  /\ gbsStatus = "positive" /\ iap = "adequate_pen_amp"
  /\ sepsisRisk = <<"3", ".", "5", "6">>

\* C4 (CalcSpec), as claimed: an incidence that is not a finite positive
\* number gives "0.00" for every combination of enumerated codes.
C4_ZeroFallback ==
  (RiskComputed /\ incidence \in MalformedIncidenceTexts /\ EnumeratedCodes)
  => sepsisRisk = <<"0", ".", "0", "0">>

\* a <= b for two finite numbers.
NumLeq(a, b) == a.m * Pow10(b.e) <= b.m * Pow10(a.e)

\* C6 (CalcSpec), as claimed: for two preset incidences a < b and the same
\* codes, the result for b is strictly greater than the result for a.
C6_StrictlyMonotone ==
  (RiskComputed /\ EnumeratedCodes /\ incidence \in IncidenceOptions)
  => \A a \in IncidenceOptions :
       (parseFloat(a).m < parseFloat(incidence).m)
         => ~NumLeq(parseFloat(sepsisRisk),
                    parseFloat(ComputeSepsisRisk(a, gestationalAge, highestTemp,
                                                 rom, gbsStatus, iap)))

\* C6 (CalcSpec), amended: for two valid incidences a < b and the same codes,
\* the result for b is greater than or equal to the result for a.
C6_WeaklyMonotone ==
  (RiskComputed /\ EnumeratedCodes)
  => \A b \in 1..MaxIncidenceTenths :
       incidence = TenthsText(b)
         => \A a \in 1..(b - 1) :
              NumLeq(parseFloat(ComputeSepsisRisk(TenthsText(a), gestationalAge,
                                                  highestTemp, rom, gbsStatus,
                                                  iap)),
                     parseFloat(sepsisRisk))

\* Rounding makes two results equal (0.2 and 0.3 both give 0.01), and larger
\* incidences give larger results elsewhere.
C6_Witness ==
  /\ RiskComputed
  /\ incidence = <<"0", ".", "3">>
  /\ gestationalAge = "37 0/7-37 6/7" /\ highestTemp = "<38" /\ rom = "<12"
  /\ gbsStatus = "negative" /\ iap = "no_iap_needed"
  /\ sepsisRisk = <<"0", ".", "0", "1">>
  /\ ComputeSepsisRisk(<<"0", ".", "2">>, gestationalAge, highestTemp, rom,
                       gbsStatus, iap) = sepsisRisk
  /\ ComputeSepsisRisk(<<"1", ".", "0">>, gestationalAge, highestTemp, rom,
                       gbsStatus, iap) = <<"0", ".", "0", "4">>

\* C8 (CalcSpec), as claimed: with a code that is not in the table (for iap:
\* when GBS is positive) the derivation ends in an error and yields no
\* recommendation tier as a silent default.
C8_LookupFailsFast ==
  (Classified /\ incidence \in ValidIncidenceTexts
     /\ \/ gestationalAge \in NonEnumerated
        \/ highestTemp \in NonEnumerated
        \/ rom \in NonEnumerated
        \/ gbsStatus \in NonEnumerated
        \/ (gbsStatus = "positive" /\ iap \in NonEnumerated))
  => recommendation \notin Tiers

\* C5 (ClassifySpec): a risk above 1.18 gives the top tier, a risk from 0.65
\* to 1.18, both included, the middle tier, and a risk below 0.65 the lowest.
C5_Classify ==
  Classified
  => /\ \A h \in 0..MaxRiskHundredths :
          sepsisRisk = FixedText(h)
            => recommendation =
                 IF h > 118 THEN "Empiric Antibiotics Recommended"
                 ELSE IF h >= 65 THEN "Enhanced Vital Signs"
                 ELSE "Routine Care"
     /\ sepsisRisk = <<"0", ".", "6", "4", "9", "9">>
          => recommendation = "Routine Care"
     /\ sepsisRisk = <<"1", ".", "1", "8", "0", "1">>
          => recommendation = "Empiric Antibiotics Recommended"

C5_Witness ==
  /\ Classified
  /\ sepsisRisk = <<"1", ".", "1", "8">>
  /\ recommendation = "Enhanced Vital Signs"

\* C1 (Spec): once the GBS effect has run, a GBS status other than positive
\* goes with iap = no_iap_needed.
C1_NonPositiveGbsHasNoIap ==
  (~effectPending /\ gbsStatus # "positive") => iap = "no_iap_needed"

C1_Witness ==
  /\ ~effectPending
  /\ lastEvent = "effect"
  /\ gbsStatus = "unknown"
  /\ iap = "no_iap_needed"
  /\ rom = ">24"

DefaultInputs ==
  <<DEFAULT_INCIDENCE, ">=42", "<38", "<12", "negative", "no_iap_needed">>

\* C7 (Spec): Reset leads to the default inputs with the risk and tier the
\* initial state displays, the effect that follows changes none of them, and
\* Reset applied to the settled default state changes nothing.
C7_Reset ==
  /\ [](lastEvent \in {"mount", "reset"}
          => /\ inputs = DefaultInputs
             /\ display = <<<<"0", ".", "0", "7">>, "Routine Care">>)
  /\ [][ /\ (lastEvent = "reset" /\ lastEvent' = "effect")
              => (inputs' = inputs /\ display' = display)
         /\ (lastEvent' = "reset" /\ inputs = DefaultInputs /\ ~effectPending)
              => UNCHANGED <<inputs, display, effectPending>> ]_vars

C7_Witness ==
  /\ lastEvent = "reset"
  /\ effectPending
  /\ inputs = DefaultInputs

\* C9 (Spec): a selector change alters only its own field; the effect alone
\* touches another field, setting iap to no_iap_needed when GBS is not
\* positive.
C9_OneWaySync ==
  [][ /\ lastEvent' = "iap"
           => UNCHANGED <<incidence, gestationalAge, highestTemp, rom, gbsStatus>>
      /\ lastEvent' = "incidence"
           => UNCHANGED <<gestationalAge, highestTemp, rom, gbsStatus, iap>>
      /\ lastEvent' = "gestationalAge"
           => UNCHANGED <<incidence, highestTemp, rom, gbsStatus, iap>>
      /\ lastEvent' = "highestTemp"
           => UNCHANGED <<incidence, gestationalAge, rom, gbsStatus, iap>>
      /\ lastEvent' = "rom"
           => UNCHANGED <<incidence, gestationalAge, highestTemp, gbsStatus, iap>>
      /\ lastEvent' = "gbsStatus"
           => UNCHANGED <<incidence, gestationalAge, highestTemp, rom, iap>>
      /\ lastEvent' = "effect"
           => /\ UNCHANGED <<incidence, gestationalAge, highestTemp, rom, gbsStatus>>
              /\ iap' = IF gbsStatus # "positive" THEN "no_iap_needed" ELSE iap
    ]_vars

C9_Witness ==
  /\ lastEvent = "iap"
  /\ iap = "no_iap_needed"
  /\ gbsStatus = "positive"
  /\ rom = ">24"

\* C10 (Spec): the risk and tier displayed by the render that precedes the
\* effect are those of the state the effect leaves, and after the effect no
\* further effect is pending.
C10_TransientDisplay ==
  [][ lastEvent' = "effect" => (display' = display /\ ~effectPending') ]_vars

C10_Witness ==
  /\ effectPending
  /\ lastEvent = "gbsStatus"
  /\ gbsStatus = "negative"
  /\ iap = "adequate_pen_amp"
  /\ highestTemp = ">=38"

====
